---- MODULE Spec2Model ----
(***************************************************************************)
(* Model of the GMGN latency monitor (src/gmgn_monitor): the reconnect     *)
(* loop run_gmgn_monitor, the message pump listen_to_gmgn, the two         *)
(* decoders handle_swap_trade / handle_new_pool, the latency calculator,   *)
(* the chain normaliser, the Statistics aggregator and the gauges of       *)
(* metrics.py.                                                             *)
(*                                                                         *)
(* JSON values are tagged records: [k |-> "absent"] is a key that is not   *)
(* in the dict, [k |-> "null"] is JSON null (Python None), Num(n) a        *)
(* number, Str(s) a string, List(q) an array.  Timestamps and the clock    *)
(* are whole seconds, latencies are milliseconds.                          *)
(***************************************************************************)
EXTENDS Integers, Sequences, FiniteSets, TLC

----------------------------------------------------------------------------
(* Bounds of the model *)

\* messages the upstream delivers on one connection (main specification)
MaxMessages == 2
\* messages the upstream delivers on one connection (cadence specification)
MaxCadence == 51
\* records with a valid latency delivered over a run
MaxEvents == 2
\* records in one payload
MaxBatch == 2
\* consecutive failed cycles before the first Listening
MaxFails == 7
\* records in the payload of a decoder called on its own
MaxUnitBatch == 3
\* Statistics.update calls on a Statistics object used on its own
MaxCalls == 3

----------------------------------------------------------------------------
(* Program constants *)

\* reconnect_delay = 5 (also the reset value)
InitialDelay == 5
max_reconnect_delay == 60
\* if message_count % 50 == 0
SummaryEvery == 50
\* latency_ms > 120000
MaxLatencyMs == 120000
\* the same bound, repeated in metrics.py
SinkMaxLatencyMs == 120000
\* float('inf'), the initial running minimum
Inf == 2147483647
\* time.time() at the moment a record is decoded, in seconds
Now == 1000

----------------------------------------------------------------------------
(* JSON / Python values *)

Absent == [k |-> "absent"]
Null == [k |-> "null"]
Num(n) == [k |-> "num", v |-> n]
Str(s) == [k |-> "str", v |-> s]
List(q) == [k |-> "list", v |-> q]
EmptyDict == [k |-> "dict"]

\* dict.get(key, default): the default only when the key is missing
Get(field, default) == IF field.k = "absent" THEN default ELSE field

\* dict.get(key): None when the key is missing
Get1(field) == Get(field, Null)

\* Python truthiness, `not x`
Falsy(x) ==
    \/ x.k \in {"absent", "null"}
    \/ x.k = "num" /\ x.v = 0
    \/ x.k = "str" /\ x.v = ""
    \/ x.k = "list" /\ x.v = <<>>

Min2(a, b) == IF a <= b THEN a ELSE b
Max2(a, b) == IF a >= b THEN a ELSE b

----------------------------------------------------------------------------
(* utils.py *)

CHAIN_MAP ==
    [x \in {"sol", "bsc", "base", "eth", "Solana", "BNB Chain", "Base", "Ethereum"} |->
        CASE x = "sol" -> "solana"
          [] x = "bsc" -> "bnb"
          [] x = "base" -> "base"
          [] x = "eth" -> "ethereum"
          [] x = "Solana" -> "solana"
          [] x = "BNB Chain" -> "bnb"
          [] x = "Base" -> "base"
          [] x = "Ethereum" -> "ethereum"]

\* str.lower() on the strings of the model
Lower(s) ==
    CASE s = "SOL" -> "sol"
      [] s = "BSC" -> "bsc"
      [] s = "ETH" -> "eth"
      [] s = "BASE" -> "base"
      [] s = "Solana" -> "solana"
      [] s = "BNB Chain" -> "bnb chain"
      [] s = "Base" -> "base"
      [] s = "Ethereum" -> "ethereum"
      [] s = "Tron" -> "tron"
      [] OTHER -> s

\* get_chain_name: CHAIN_MAP.get(chain_code, chain_code.lower()).  The default
\* argument chain_code.lower() is evaluated before the lookup, so a value
\* that is not a string raises AttributeError.
\* Result: [raised |-> BOOLEAN, v |-> canonical name]
get_chain_name(chain_code) ==
    IF chain_code.k # "str"
    THEN [raised |-> TRUE, v |-> ""]
    ELSE [raised |-> FALSE,
          v |-> IF chain_code.v \in DOMAIN CHAIN_MAP
                THEN CHAIN_MAP[chain_code.v]
                ELSE Lower(chain_code.v)]

\* calculate_latency without the upper bound of the filter
calculate_latency_no_upper(server_timestamp, now) ==
    IF Falsy(server_timestamp) THEN Null
    ELSE IF server_timestamp.k # "num" THEN Null
    ELSE LET latency_ms == (now - server_timestamp.v) * 1000
         IN IF latency_ms < 0 THEN Null ELSE Num(latency_ms)

\* calculate_latency with a latency equal to the limit rejected
calculate_latency_exclusive(server_timestamp, now) ==
    IF Falsy(server_timestamp) THEN Null
    ELSE IF server_timestamp.k # "num" THEN Null
    ELSE LET latency_ms == (now - server_timestamp.v) * 1000
         IN IF latency_ms < 0 \/ latency_ms >= MaxLatencyMs
            THEN Null
            ELSE Num(latency_ms)

\* calculate_latency(server_timestamp), with time.time() as `now`.
\* Null is Python's None.
calculate_latency(server_timestamp, now) ==
    IF Falsy(server_timestamp) THEN Null
    ELSE IF server_timestamp.k # "num" THEN Null   \* TypeError, caught: None
    ELSE LET latency_ms == (now - server_timestamp.v) * 1000
         IN IF latency_ms < 0 \/ latency_ms > MaxLatencyMs
            THEN Null
            ELSE Num(latency_ms)

----------------------------------------------------------------------------
(* stats.py *)

\* Statistics.__init__
NewStatistics ==
    [swap_count |-> 0, pool_count |-> 0,
     total_swap_latency |-> 0, total_pool_latency |-> 0,
     min_swap_latency |-> Inf, max_swap_latency |-> 0,
     min_pool_latency |-> Inf, max_pool_latency |-> 0,
     by_chain |-> [c \in {} |-> 0]]

NewBucket == [swap_count |-> 0, pool_count |-> 0, total_latency |-> 0]

\* Statistics.update adding every latency to the swap sum
Update_one_sum(s, event_type, chain, latency_ms) ==
    LET s1 == IF event_type = "swap"
              THEN [s EXCEPT !.swap_count = @ + 1,
                             !.total_swap_latency = @ + latency_ms,
                             !.min_swap_latency = Min2(@, latency_ms),
                             !.max_swap_latency = Max2(@, latency_ms)]
              ELSE [s EXCEPT !.pool_count = @ + 1,
                             !.total_swap_latency = @ + latency_ms,
                             !.min_pool_latency = Min2(@, latency_ms),
                             !.max_pool_latency = Max2(@, latency_ms)]
        old == IF chain \in DOMAIN s.by_chain THEN s.by_chain[chain] ELSE NewBucket
        new == IF event_type = "swap"
               THEN [old EXCEPT !.swap_count = @ + 1, !.total_latency = @ + latency_ms]
               ELSE [old EXCEPT !.pool_count = @ + 1, !.total_latency = @ + latency_ms]
    IN [s1 EXCEPT !.by_chain =
            [c \in DOMAIN s.by_chain \cup {chain} |->
                IF c = chain THEN new ELSE s.by_chain[c]]]

\* Statistics.update replacing the chain's bucket by a new one on every call
Update_new_bucket(s, event_type, chain, latency_ms) ==
    LET s1 == IF event_type = "swap"
              THEN [s EXCEPT !.swap_count = @ + 1,
                             !.total_swap_latency = @ + latency_ms,
                             !.min_swap_latency = Min2(@, latency_ms),
                             !.max_swap_latency = Max2(@, latency_ms)]
              ELSE [s EXCEPT !.pool_count = @ + 1,
                             !.total_pool_latency = @ + latency_ms,
                             !.min_pool_latency = Min2(@, latency_ms),
                             !.max_pool_latency = Max2(@, latency_ms)]
        new == IF event_type = "swap"
               THEN [NewBucket EXCEPT !.swap_count = 1, !.total_latency = latency_ms]
               ELSE [NewBucket EXCEPT !.pool_count = 1, !.total_latency = latency_ms]
    IN [s1 EXCEPT !.by_chain =
            [c \in DOMAIN s.by_chain \cup {chain} |->
                IF c = chain THEN new ELSE s.by_chain[c]]]

\* Statistics.update(event_type, chain, latency_ms)
Update(s, event_type, chain, latency_ms) ==
    LET s1 == IF event_type = "swap"
              THEN [s EXCEPT !.swap_count = @ + 1,
                             !.total_swap_latency = @ + latency_ms,
                             !.min_swap_latency = Min2(@, latency_ms),
                             !.max_swap_latency = Max2(@, latency_ms)]
              ELSE IF event_type = "pool"
              THEN [s EXCEPT !.pool_count = @ + 1,
                             !.total_pool_latency = @ + latency_ms,
                             !.min_pool_latency = Min2(@, latency_ms),
                             !.max_pool_latency = Max2(@, latency_ms)]
              ELSE s
        old == IF chain \in DOMAIN s.by_chain THEN s.by_chain[chain] ELSE NewBucket
        new == IF event_type = "swap"
               THEN [old EXCEPT !.swap_count = @ + 1, !.total_latency = @ + latency_ms]
               ELSE [old EXCEPT !.pool_count = @ + 1, !.total_latency = @ + latency_ms]
    IN [s1 EXCEPT !.by_chain =
            [c \in DOMAIN s.by_chain \cup {chain} |->
                IF c = chain THEN new ELSE s.by_chain[c]]]

\* Statistics.print_summary: what is shown (the object is only read).
\* A section whose count is zero is omitted (shown as << >>).
print_summary(s) ==
    [swap |-> IF s.swap_count > 0
              THEN <<s.swap_count, s.total_swap_latency \div s.swap_count,
                     s.min_swap_latency, s.max_swap_latency>>
              ELSE <<>>,
     pool |-> IF s.pool_count > 0
              THEN <<s.pool_count, s.total_pool_latency \div s.pool_count,
                     s.min_pool_latency, s.max_pool_latency>>
              ELSE <<>>,
     per_chain |-> [c \in DOMAIN s.by_chain |->
                      LET total == s.by_chain[c].swap_count + s.by_chain[c].pool_count
                      IN IF total > 0
                         THEN <<total, s.by_chain[c].total_latency \div total>>
                         ELSE <<>>]]

----------------------------------------------------------------------------
(* metrics.py *)

\* init_metrics: three gauges without any labelled value
NewGauges ==
    [swap |-> [c \in {} |-> 0],
     pool |-> [c \in {} |-> 0],
     all |-> [c \in {} |-> 0]]

\* Gauge.labels(...).set(value)
SetGauge(g, labels, value) ==
    [x \in DOMAIN g \cup {labels} |-> IF x = labels THEN value ELSE g[x]]

\* One <gauge>.labels(...).set(value) call, as the call log keeps it
GaugeWrite(name, labels, value) ==
    [op |-> "gauge", name |-> name, labels |-> labels, v |-> value]

RECURSIVE ApplyWrites(_, _)
\* The gauges after the writes w, performed in order
ApplyWrites(g, w) ==
    IF w = <<>> THEN g
    ELSE ApplyWrites([g EXCEPT ![Head(w).name] =
                          SetGauge(@, Head(w).labels, Head(w).v)], Tail(w))

\* record_latency with a filter of one minute
record_latency_writes_one_minute(aggregator, chain, latency_ms) ==
    IF latency_ms < 0 \/ latency_ms > 60000
    THEN <<>>
    ELSE <<GaugeWrite("swap", chain, latency_ms),
           GaugeWrite("all", <<aggregator, chain>>, latency_ms)>>

\* record_latency without the write to the combined gauge
record_latency_writes_swap_only(aggregator, chain, latency_ms) ==
    IF latency_ms < 0 \/ latency_ms > SinkMaxLatencyMs
    THEN <<>>
    ELSE <<GaugeWrite("swap", chain, latency_ms)>>

\* The gauge writes of record_latency(aggregator, chain, latency_ms)
record_latency_writes(aggregator, chain, latency_ms) ==
    IF latency_ms < 0 \/ latency_ms > SinkMaxLatencyMs
    THEN <<>>
    ELSE <<GaugeWrite("swap", chain, latency_ms),
           GaugeWrite("all", <<aggregator, chain>>, latency_ms)>>

\* record_latency(aggregator, chain, latency_ms)
record_latency(g, aggregator, chain, latency_ms) ==
    ApplyWrites(g, record_latency_writes(aggregator, chain, latency_ms))

\* record_pool_discovery_latency writing the combined gauge twice and the
\* pool gauge never
record_pool_discovery_latency_writes_all_only(aggregator, chain, latency_ms) ==
    IF latency_ms < 0 \/ latency_ms > SinkMaxLatencyMs
    THEN <<>>
    ELSE <<GaugeWrite("all", <<aggregator, chain>>, latency_ms),
           GaugeWrite("all", <<aggregator, chain>>, latency_ms)>>

\* The gauge writes of record_pool_discovery_latency(aggregator, chain,
\* latency_ms)
record_pool_discovery_latency_writes(aggregator, chain, latency_ms) ==
    IF latency_ms < 0 \/ latency_ms > SinkMaxLatencyMs
    THEN <<>>
    ELSE <<GaugeWrite("pool", <<aggregator, chain>>, latency_ms),
           GaugeWrite("all", <<aggregator, chain>>, latency_ms)>>

\* record_pool_discovery_latency(aggregator, chain, latency_ms)
record_pool_discovery_latency(g, aggregator, chain, latency_ms) ==
    ApplyWrites(g, record_pool_discovery_latency_writes(aggregator, chain,
                                                        latency_ms))

----------------------------------------------------------------------------
(* gmgn_websocket.py: the decoders *)

\* A decoder run: the Aggregator and the gauges as the decoder leaves them,
\* whether an exception escaped it, and the log of what it did: the records
\* it began, the latencies calculate_latency returned, the gauge writes and
\* the Statistics.update calls, in order.
Decoded(s, g, raised) ==
    [stats |-> s, gauges |-> g, raised |-> raised, log |-> <<>>]

\* Log entries
BeginEvent == [op |-> "event"]
BeginRecord == [op |-> "record"]
LatencyComputed(latency) == [op |-> "latency", v |-> latency]
UpdateCall(event_type, chain, latency_ms) ==
    [op |-> "update", type |-> event_type, chain |-> chain, v |-> latency_ms]

\* The decoder run h after an exception escaped the current record
Raise(h) == [h EXCEPT !.raised = TRUE]

swap_record_counts_invalid(h, trade, debug) ==
    IF trade.k # "dict" THEN Raise(h)
    ELSE
    LET address == Get(trade.a, Str(""))
        chain_raw == Get(trade.c, Get(trade.n, Str("unknown")))
        chain == get_chain_name(chain_raw)
        latency == calculate_latency(Get1(trade.t), Now)
        h1 == [h EXCEPT !.log = Append(@, LatencyComputed(latency))]
        ms == IF latency.k = "null" THEN 0 ELSE latency.v
    IN IF debug /\ chain_raw = Str("unknown") /\ address.k # "str"
       THEN Raise(h)
       ELSE IF chain.raised THEN Raise(h)
       ELSE [stats |-> Update(h.stats, "swap", chain.v, ms),
             gauges |-> record_latency(h.gauges, "gmgn", chain.v, ms),
             raised |-> address.k # "str",
             log |-> h1.log \o record_latency_writes("gmgn", chain.v, ms)
                     \o <<UpdateCall("swap", chain.v, ms)>>]

\* Body of the loop of handle_swap_trade for one record
swap_record(h, trade, debug) ==
    IF trade.k # "dict" THEN Raise(h)                           \* trade.get
    ELSE
    LET address == Get(trade.a, Str(""))
        chain_raw == Get(trade.c, Get(trade.n, Str("unknown")))
        chain == get_chain_name(chain_raw)
        latency == calculate_latency(Get1(trade.t), Now)
        h1 == [h EXCEPT !.log = Append(@, LatencyComputed(latency))]
    IN IF debug /\ chain_raw = Str("unknown") /\ address.k # "str"
       THEN Raise(h)                                            \* address.startswith
       ELSE IF chain.raised THEN Raise(h)                       \* chain_code.lower
       ELSE IF latency.k = "null" THEN h1                       \* continue
       ELSE LET w == record_latency_writes("gmgn", chain.v, latency.v)
                g1 == record_latency(h.gauges, "gmgn", chain.v, latency.v)
                s1 == Update(h.stats, "swap", chain.v, latency.v)
            IN \* len(address) raises TypeError on None, after both updates
               [stats |-> s1, gauges |-> g1, raised |-> address.k # "str",
                log |-> h1.log \o w
                        \o <<UpdateCall("swap", chain.v, latency.v)>>]

RECURSIVE swap_loop(_, _, _, _)
\* for trade in data, from index i; an exception ends the loop
swap_loop(h, data, i, debug) ==
    IF i > Len(data) \/ h.raised THEN h
    ELSE swap_loop(swap_record([h EXCEPT !.log = Append(@, BeginRecord)],
                               data[i], debug),
                   data, i + 1, debug)

\* handle_swap_trade(data, receive_time, stats_obj, debug)
handle_swap_trade(h, data, debug) ==
    IF Falsy(data) THEN h
    ELSE IF data.k # "list" THEN Raise(h)
    ELSE swap_loop(h, data.v, 1, debug)

\* Body of the inner loop of handle_new_pool for one pool entry
pool_entry(h, pool, chain, open_time) ==
    IF pool.k # "dict" THEN Raise(h)                            \* pool.get
    ELSE
    LET pool_addr == Get(pool.pa, Str(""))
        pool_open_time == Get(pool.ot, open_time)
        token_info == Get(pool.bti, EmptyDict)
        latency == calculate_latency(pool_open_time, Now)
        h1 == [h EXCEPT !.log = Append(@, LatencyComputed(latency))]
    IN IF token_info.k # "dict" THEN Raise(h)                   \* token_info.get
       ELSE IF latency.k = "null" THEN h1                       \* continue
       ELSE LET w == record_pool_discovery_latency_writes("gmgn", chain,
                                                          latency.v)
                g1 == record_pool_discovery_latency(h.gauges, "gmgn", chain,
                                                    latency.v)
                s1 == Update(h.stats, "pool", chain, latency.v)
            IN \* len(pool_addr) raises TypeError on None, after both updates
               [stats |-> s1, gauges |-> g1, raised |-> pool_addr.k # "str",
                log |-> h1.log \o w
                        \o <<UpdateCall("pool", chain, latency.v)>>]

RECURSIVE pool_entries(_, _, _, _, _)
\* for pool in pools, from index j
pool_entries(h, pools, j, chain, open_time) ==
    IF j > Len(pools) \/ h.raised THEN h
    ELSE pool_entries(pool_entry([h EXCEPT !.log = Append(@, BeginRecord)],
                                 pools[j], chain, open_time),
                      pools, j + 1, chain, open_time)

\* pool_event without the fallback to the batch item itself
pool_event_nested_only(h, ev) ==
    IF ev.k # "dict" THEN Raise(h)
    ELSE
    LET chain_raw == Get(ev.c, Get(ev.n, Str("unknown")))
        chain == get_chain_name(chain_raw)
        pools == Get(ev.p, List(<<>>))
        open_time == Get1(ev.ot)
    IN IF chain.raised THEN Raise(h)
       ELSE IF pools.k = "list"
       THEN pool_entries(h, pools.v, 1, chain.v, open_time)
       ELSE IF pools.k = "str" /\ pools.v = "" THEN h
       ELSE Raise(h)

\* Body of the outer loop of handle_new_pool for one batch item
pool_event(h, ev) ==
    IF ev.k # "dict" THEN Raise(h)                              \* pool_event.get
    ELSE
    LET chain_raw == Get(ev.c, Get(ev.n, Str("unknown")))
        chain == get_chain_name(chain_raw)
        p == Get(ev.p, List(<<>>))
        pools == IF Falsy(p) /\ ev.pa.k # "absent" THEN List(<<ev>>) ELSE p
        open_time == Get1(ev.ot)
    IN IF chain.raised THEN Raise(h)
       ELSE IF pools.k = "list"
       THEN pool_entries(h, pools.v, 1, chain.v, open_time)
       ELSE IF pools.k = "str" /\ pools.v = "" THEN h
       ELSE Raise(h)                                            \* for pool in None

RECURSIVE pool_loop(_, _, _)
\* for pool_event in data, from index i
pool_loop(h, data, i) ==
    IF i > Len(data) \/ h.raised THEN h
    ELSE pool_loop(pool_event([h EXCEPT !.log = Append(@, BeginEvent)], data[i]),
                   data, i + 1)

\* handle_new_pool(data, receive_time, stats_obj, debug)
handle_new_pool(h, data) ==
    IF Falsy(data) THEN h
    ELSE IF data.k # "list" THEN Raise(h)
    ELSE pool_loop(h, data.v, 1)

\* create_subscription(channel, chain).  The random request id (uuid4 hex,
\* 16 characters) is left out: nothing reads it.
create_subscription(channel, chain) ==
    [action |-> "subscribe", channel |-> channel, f |-> "w",
     data |-> <<[chain |-> chain]>>, access_token |-> Null, retry |-> Null]

----------------------------------------------------------------------------
(* Inputs: what the upstream and the environment can deliver *)

Trade(c, n, a, t) == [k |-> "dict", c |-> c, n |-> n, a |-> a, t |-> t]

\* Swap records: 'c' chain, 'n' fallback chain, 'a' token address, 't' timestamp
SwapRecords ==
    { Trade(Str("sol"), Absent, Str("0xabc123456"), Num(Now - 1)),
      Trade(Str("bsc"), Absent, Str("0xabc123456"), Num(Now - 120)),
      Trade(Absent, Absent, Null, Num(Now)),
      Trade(Str("sol"), Absent, Null, Num(Now - 1)),
      Trade(Null, Absent, Str("0xabc123456"), Num(Now - 1)),
      Trade(Str("sol"), Absent, Str("0xabc123456"), Num(Now - 121)),
      Trade(Str("sol"), Absent, Str("0xabc123456"), Num(Now + 1)),
      Trade(Str("sol"), Absent, Str("0xabc123456"), Num(0)),
      Trade(Absent, Str("Solana"), Absent, Absent) }

TokenInfo == [k |-> "dict"]

Pool(c, p, pa, ot, bti) ==
    [k |-> "dict", c |-> c, n |-> Absent, p |-> p, pa |-> pa, ot |-> ot, bti |-> bti]

\* A pool entry of a nested 'p' list
Entry(pa, ot, bti) == Pool(Absent, Absent, pa, ot, bti)

\* Pool batch items: 'c' chain, 'p' nested list, 'pa' pool address,
\* 'ot' open time, 'bti' token-info block
PoolRecords ==
    { \* wrapped, the entry inherits the batch open time
      Pool(Str("sol"), List(<<Entry(Str("Addr123456789"), Absent, TokenInfo)>>),
           Absent, Num(Now - 1), Absent),
      \* the same pool, bare
      Pool(Str("sol"), Absent, Str("Addr123456789"), Num(Now - 1), TokenInfo),
      \* the entry's own open time overrides a stale batch open time
      Pool(Str("base"), List(<<Entry(Str("Addr123456789"), Num(Now - 120), TokenInfo)>>),
           Absent, Num(Now - 121), Absent),
      \* the entry's open time is null
      Pool(Str("sol"), List(<<Entry(Str("Addr123456789"), Null, TokenInfo)>>),
           Absent, Num(Now - 1), Absent),
      \* null token-info block
      Pool(Str("sol"), Absent, Str("Addr123456789"), Num(Now - 1), Null),
      \* null pool address
      Pool(Str("sol"), Absent, Null, Num(Now - 1), TokenInfo),
      \* null chain
      Pool(Null, Absent, Str("Addr123456789"), Num(Now - 1), TokenInfo),
      \* stale, and without a timestamp
      Pool(Str("sol"), Absent, Str("Addr123456789"), Num(Now - 121), TokenInfo),
      Pool(Str("sol"), Absent, Str("Addr123456789"), Absent, TokenInfo) }

\* Records that are combined into payloads of several records: a valid one,
\* one that raises after the updates, one that raises before, a stale one
CoreSwapRecords ==
    { Trade(Str("sol"), Absent, Str("0xabc123456"), Num(Now - 1)),
      Trade(Str("sol"), Absent, Null, Num(Now - 1)),
      Trade(Null, Absent, Str("0xabc123456"), Num(Now - 1)),
      Trade(Str("sol"), Absent, Str("0xabc123456"), Num(Now - 121)) }

CorePoolRecords ==
    { Pool(Str("sol"), Absent, Str("Addr123456789"), Num(Now - 1), TokenInfo),
      Pool(Str("sol"), Absent, Null, Num(Now - 1), TokenInfo),
      Pool(Str("sol"), Absent, Str("Addr123456789"), Num(Now - 1), Null),
      Pool(Str("sol"), Absent, Str("Addr123456789"), Num(Now - 121), TokenInfo) }

\* Payloads: empty, one record of R, or 2..n records of Core
Batches(R, Core, n) ==
    {<<>>} \cup {<<r>> : r \in R} \cup UNION {[1..m -> Core] : m \in 2..n}

Msg(channel, data) == [k |-> "dict", channel |-> channel, data |-> data]

\* Text that json.loads rejects
Garbage == [k |-> "garbage"]

\* Inbound messages with payloads of at most n records
Messages(n) ==
    { Garbage,
      List(<<>>),                          \* valid JSON, not an object
      Msg(Absent, Absent),
      Msg(Null, Absent),
      Msg(Str("ack"), Absent),
      Msg(Str("kline"), Absent),
      Msg(Str("new_pair_update"), Null),
      Msg(Str("new_pool_info"), Null) }
    \cup {Msg(Str("new_pair_update"), List(q)) :
             q \in Batches(SwapRecords, CoreSwapRecords, n)}
    \cup {Msg(Str("new_pool_info"), List(q)) :
             q \in Batches(PoolRecords, CorePoolRecords, n)}

\* The messages of the main specification and of the cadence specification
BatchMessages == Messages(MaxBatch)
SingleMessages == Messages(1)

\* CHAINS as Config.load splits it: entries are kept in order, duplicates too
ChainLists == { <<"sol", "bsc">>, <<"sol", "sol">> }

\* HTTP status of a rejected handshake
Statuses == {403, 500}

----------------------------------------------------------------------------
(* State *)

VARIABLES
    config,           \* Config: [chains, debug]
    limits,           \* what the environment delivers: [messages, events, batches]
    pc,               \* position of run_gmgn_monitor
    stop_event,       \* asyncio.Event set by the signal handler
    reconnect_delay,  \* run_gmgn_monitor's reconnect_delay
    sent,             \* subscription requests sent on the current connection
    message_count,    \* listen_to_gmgn's message_count
    stats_obj,        \* the Statistics object
    gauges,           \* the three gauges of metrics.py
    printed,          \* summary rendered by the last step
    final_renders,    \* number of renders of the final summary
    failure,          \* how the last failed cycle ended ("none" once connected)
    fails,            \* backoff sleeps since the last reset of the delay
    sleep_dur,        \* duration of the last backoff sleep
    ever_listened,    \* some cycle reached Listening
    channeled,        \* messages of this connection that parsed and had a channel
    probe             \* a function or decoder exercised on its own: its input
                      \* and what it returned

vars == <<probe, config, limits, pc, stop_event, reconnect_delay, sent, message_count,
          stats_obj, gauges, printed, final_renders, failure, fails, sleep_dur,
          ever_listened, channeled>>

NoPrint == [kind |-> "none"]
NoProbe == [op |-> "none"]
Rendering(kind, s) == [kind |-> kind, view |-> print_summary(s)]

Channels == <<"new_pair_update", "new_pool_info">>

PreListeningFailures == {"rejected_403", "rejected", "connect_error", "send_error"}
ListeningFailures == {"closed", "read_error", "dispatch_error", "decoder_error"}

InitCommon ==
    /\ pc = "loop_top"
    /\ stop_event = FALSE
    /\ reconnect_delay = InitialDelay
    /\ sent = <<>>
    /\ message_count = 0
    /\ stats_obj = NewStatistics
    /\ gauges = NewGauges
    /\ printed = NoPrint
    /\ final_renders = 0
    /\ failure = "none"
    /\ fails = 0
    /\ sleep_dur = 0
    /\ ever_listened = FALSE
    /\ channeled = 0
    /\ probe = NoProbe

Init ==
    /\ config \in [chains : ChainLists, debug : BOOLEAN]
    /\ limits = [messages |-> MaxMessages, events |-> MaxEvents, batches |-> TRUE]
    /\ InitCommon

\* Long connections with few records, for the cadence of the periodic summary
InitCadence ==
    /\ config = [chains |-> <<"sol">>, debug |-> TRUE]
    /\ limits = [messages |-> MaxCadence, events |-> 1, batches |-> FALSE]
    /\ InitCommon

----------------------------------------------------------------------------
(* run_gmgn_monitor *)

\* reconnect_delay = min(reconnect_delay * 2, max_reconnect_delay), uncapped
NextDelay_uncapped(d) == d * 2

\* reconnect_delay = min(reconnect_delay * 3, max_reconnect_delay)
NextDelay_tripled(d) == Min2(d * 3, max_reconnect_delay)

\* reconnect_delay = min(reconnect_delay * 2, max_reconnect_delay)
NextDelay(d) == Min2(d * 2, max_reconnect_delay)

\* Leaving the while loop: print_summary, "GMGN monitor stopped", return
Finish ==
    /\ pc' = "done"
    /\ printed' = Rendering("final", stats_obj)
    /\ final_renders' = final_renders + 1

\* while not stop_event.is_set(): ... websockets.connect(...)
LoopTop ==
    /\ pc = "loop_top"
    /\ IF stop_event
       THEN Finish
       ELSE /\ pc' = "connecting"
            /\ printed' = NoPrint
            /\ UNCHANGED final_renders
    /\ UNCHANGED <<probe, config, limits, stop_event, reconnect_delay, sent, message_count,
                   stats_obj, gauges, failure, fails, sleep_dur, ever_listened,
                   channeled>>

\* The cycle ends in the except clauses (or listen_to_gmgn returns) and
\* control reaches `if stop_event.is_set(): break`
FailCycle(kind) ==
    /\ pc' = "after_try"
    /\ failure' = kind
    /\ sent' = <<>>
    /\ message_count' = 0
    /\ channeled' = 0

\* The handshake succeeds: "Connected to GMGN WebSocket"
ConnectOk ==
    /\ pc = "connecting"
    /\ pc' = "subscribing"
    /\ sent' = <<>>
    /\ failure' = "none"
    /\ printed' = NoPrint
    /\ UNCHANGED <<probe, config, limits, stop_event, reconnect_delay, message_count,
                   stats_obj, gauges, final_renders, fails, sleep_dur,
                   ever_listened, channeled>>

\* ConnectRejected where a 403 is not retried: the loop returns
ConnectRejected_fatal ==
    /\ pc = "connecting"
    /\ fails < MaxFails
    /\ \E status \in Statuses :
          IF status = 403
          THEN /\ pc' = "done"
               /\ failure' = "rejected_403"
               /\ UNCHANGED <<sent, message_count, channeled>>
          ELSE FailCycle("rejected")
    /\ printed' = NoPrint
    /\ UNCHANGED <<probe, config, limits, stop_event, reconnect_delay, stats_obj, gauges,
                   final_renders, fails, sleep_dur, ever_listened>>

\* except websockets.exceptions.InvalidStatusCode
ConnectRejected ==
    /\ pc = "connecting"
    /\ fails < MaxFails
    /\ \E status \in Statuses :
          FailCycle(IF status = 403 THEN "rejected_403" ELSE "rejected")
    /\ printed' = NoPrint
    /\ UNCHANGED <<probe, config, limits, stop_event, reconnect_delay, stats_obj, gauges,
                   final_renders, fails, sleep_dur, ever_listened>>

\* except Exception, raised by websockets.connect
ConnectError ==
    /\ pc = "connecting"
    /\ fails < MaxFails
    /\ FailCycle("connect_error")
    /\ printed' = NoPrint
    /\ UNCHANGED <<probe, config, limits, stop_event, reconnect_delay, stats_obj, gauges,
                   final_renders, fails, sleep_dur, ever_listened>>

\* The next request of `for chain in config.chains`: swaps, then pools
NextSubscription ==
    LET i == Len(sent)
    IN create_subscription(Channels[(i % 2) + 1], config.chains[(i \div 2) + 1])

\* await websocket.send(json.dumps(sub))
SendSubscription ==
    /\ pc = "subscribing"
    /\ Len(sent) < 2 * Len(config.chains)
    /\ sent' = Append(sent, NextSubscription)
    /\ printed' = NoPrint
    /\ UNCHANGED <<probe, config, limits, pc, stop_event, reconnect_delay, message_count,
                   stats_obj, gauges, final_renders, failure, fails, sleep_dur,
                   ever_listened, channeled>>

\* websocket.send raises: except Exception
SendFail ==
    /\ pc = "subscribing"
    /\ Len(sent) < 2 * Len(config.chains)
    /\ fails < MaxFails
    /\ FailCycle("send_error")
    /\ printed' = NoPrint
    /\ UNCHANGED <<probe, config, limits, stop_event, reconnect_delay, stats_obj, gauges,
                   final_renders, fails, sleep_dur, ever_listened>>

\* EnterListening without `reconnect_delay = 5`
EnterListening_no_reset ==
    /\ pc = "subscribing"
    /\ Len(sent) = 2 * Len(config.chains)
    /\ pc' = "listening"
    /\ message_count' = 0
    /\ channeled' = 0
    /\ fails' = 0
    /\ sleep_dur' = 0
    /\ ever_listened' = TRUE
    /\ printed' = NoPrint
    /\ UNCHANGED <<probe, config, limits, stop_event, reconnect_delay, sent, stats_obj, gauges,
                   final_renders, failure>>

\* EnterListening with a counter that goes on from the events of the run
EnterListening_run_counter ==
    /\ pc = "subscribing"
    /\ Len(sent) = 2 * Len(config.chains)
    /\ reconnect_delay' = InitialDelay
    /\ pc' = "listening"
    /\ message_count' = stats_obj.swap_count + stats_obj.pool_count
    /\ channeled' = 0
    /\ fails' = 0
    /\ sleep_dur' = 0
    /\ ever_listened' = TRUE
    /\ printed' = NoPrint
    /\ UNCHANGED <<probe, config, limits, stop_event, sent, stats_obj, gauges,
                   final_renders, failure>>

\* EnterListening with a new Statistics object for each connection
EnterListening_new_statistics ==
    /\ pc = "subscribing"
    /\ Len(sent) = 2 * Len(config.chains)
    /\ reconnect_delay' = InitialDelay
    /\ pc' = "listening"
    /\ message_count' = 0
    /\ channeled' = 0
    /\ fails' = 0
    /\ sleep_dur' = 0
    /\ ever_listened' = TRUE
    /\ printed' = NoPrint
    /\ stats_obj' = NewStatistics
    /\ UNCHANGED <<probe, config, limits, stop_event, sent, gauges,
                   final_renders, failure>>

\* All subscriptions sent: reconnect_delay = 5, then listen_to_gmgn starts
\* with message_count = 0
EnterListening ==
    /\ pc = "subscribing"
    /\ Len(sent) = 2 * Len(config.chains)
    /\ reconnect_delay' = InitialDelay
    /\ pc' = "listening"
    /\ message_count' = 0
    /\ channeled' = 0
    /\ fails' = 0
    /\ sleep_dur' = 0
    /\ ever_listened' = TRUE
    /\ printed' = NoPrint
    /\ UNCHANGED <<probe, config, limits, stop_event, sent, stats_obj, gauges,
                   final_renders, failure>>

----------------------------------------------------------------------------
(* listen_to_gmgn *)

\* Outcome of one iteration of `async for message in websocket`
\* raised: "none", "dispatch" (in the loop body itself) or "decoder"
Iteration(h, where, render) ==
    [stats |-> h.stats, gauges |-> h.gauges,
     raised |-> IF h.raised THEN where ELSE "none",
     render |-> render /\ ~h.raised,
     log |-> h.log]

\* The body of the loop with every channel but new_pool_info sent to the
\* swap decoder
on_message_swap_by_default(msg, count, s, g, debug) ==
    LET h0 == Decoded(s, g, FALSE)
    IN IF msg.k = "garbage" THEN Iteration(h0, "none", FALSE)
       ELSE IF msg.k # "dict"
       THEN Iteration([h0 EXCEPT !.raised = TRUE], "dispatch", FALSE)
       ELSE LET channel == Get1(msg.channel)
                payload == Get1(msg.data)
            IN IF Falsy(channel) THEN Iteration(h0, "none", FALSE)
               ELSE IF channel = Str("ack") THEN Iteration(h0, "none", FALSE)
               ELSE LET h == IF channel = Str("new_pool_info")
                             THEN handle_new_pool(h0, payload)
                             ELSE handle_swap_trade(h0, payload, debug)
                    IN Iteration(h, "decoder", count % SummaryEvery = 0)

\* The body of the loop for one message; count is message_count after
\* `message_count += 1`
on_message(msg, count, s, g, debug) ==
    LET h0 == Decoded(s, g, FALSE)
    IN IF msg.k = "garbage" THEN Iteration(h0, "none", FALSE)         \* JSONDecodeError: continue
       ELSE IF msg.k # "dict"
       THEN Iteration([h0 EXCEPT !.raised = TRUE], "dispatch", FALSE)   \* data.get: AttributeError
       ELSE LET channel == Get1(msg.channel)
                payload == Get1(msg.data)
            IN IF Falsy(channel) THEN Iteration(h0, "none", FALSE)        \* continue
               ELSE IF channel = Str("ack") THEN Iteration(h0, "none", FALSE)   \* continue
               ELSE LET h == IF channel = Str("new_pair_update")
                             THEN handle_swap_trade(h0, payload, debug)
                             ELSE IF channel = Str("new_pool_info")
                             THEN handle_new_pool(h0, payload)
                             ELSE h0
                    IN Iteration(h, "decoder", count % SummaryEvery = 0)

\* The message parsed and carried a channel name
IsChanneled(msg) == msg.k = "dict" /\ ~Falsy(Get1(msg.channel))

\* What the loop of listen_to_gmgn does to the state for the message msg,
\* r being the outcome of its body
Deliver(msg, r) ==
    /\ stats_obj' = r.stats
    /\ gauges' = r.gauges
    /\ printed' = IF r.render THEN Rendering("periodic", r.stats) ELSE NoPrint
    /\ IF r.raised # "none"
       THEN FailCycle(IF r.raised = "dispatch" THEN "dispatch_error"
                                               ELSE "decoder_error")
       ELSE /\ message_count' = message_count + 1
            /\ channeled' = channeled + (IF IsChanneled(msg) THEN 1 ELSE 0)
            /\ UNCHANGED <<pc, failure, sent>>
    /\ UNCHANGED <<config, limits, stop_event, reconnect_delay, final_renders, fails,
                   sleep_dur, ever_listened>>

\* One inbound message is received and processed.  An exception from the body
\* is caught by the `except Exception` around the loop: listen_to_gmgn
\* returns and the connection is closed.
RecvMessage ==
    /\ pc = "listening"
    /\ message_count < limits.messages
    /\ \E msg \in (IF limits.batches THEN BatchMessages ELSE SingleMessages) :
          LET r == on_message(msg, message_count + 1, stats_obj, gauges, config.debug)
          IN /\ r.stats.swap_count + r.stats.pool_count <= limits.events
             /\ Deliver(msg, r)
    /\ UNCHANGED probe

\* except websockets.exceptions.ConnectionClosed, or the iterator ends on a
\* normal closure
ConnectionClosed ==
    /\ pc = "listening"
    /\ FailCycle("closed")
    /\ printed' = NoPrint
    /\ UNCHANGED <<probe, config, limits, stop_event, reconnect_delay, stats_obj, gauges,
                   final_renders, fails, sleep_dur, ever_listened>>

\* except Exception, raised by the read
ReadError ==
    /\ pc = "listening"
    /\ FailCycle("read_error")
    /\ printed' = NoPrint
    /\ UNCHANGED <<probe, config, limits, stop_event, reconnect_delay, stats_obj, gauges,
                   final_renders, fails, sleep_dur, ever_listened>>

----------------------------------------------------------------------------
(* run_gmgn_monitor, after the try block *)

\* if stop_event.is_set(): break; otherwise asyncio.sleep(reconnect_delay) starts
AfterTry ==
    /\ pc = "after_try"
    /\ IF stop_event
       THEN Finish /\ UNCHANGED <<fails, sleep_dur>>
       ELSE /\ pc' = "sleeping"
            /\ sleep_dur' = reconnect_delay
            /\ fails' = fails + 1
            /\ printed' = NoPrint
            /\ UNCHANGED final_renders
    /\ UNCHANGED <<probe, config, limits, stop_event, reconnect_delay, sent, message_count,
                   stats_obj, gauges, failure, ever_listened, channeled>>

\* SleepDone that reconnects without going back to the loop condition
SleepDone_reconnects ==
    /\ pc = "sleeping"
    /\ reconnect_delay' = NextDelay(reconnect_delay)
    /\ pc' = "connecting"
    /\ printed' = NoPrint
    /\ UNCHANGED <<probe, config, limits, stop_event, sent, message_count, stats_obj, gauges,
                   final_renders, failure, fails, sleep_dur, ever_listened, channeled>>

\* asyncio.sleep returns; the delay is doubled; back to the loop condition
SleepDone ==
    /\ pc = "sleeping"
    /\ reconnect_delay' = NextDelay(reconnect_delay)
    /\ pc' = "loop_top"
    /\ printed' = NoPrint
    /\ UNCHANGED <<probe, config, limits, stop_event, sent, message_count, stats_obj, gauges,
                   final_renders, failure, fails, sleep_dur, ever_listened, channeled>>

----------------------------------------------------------------------------
(* main.py *)

\* signal_handler: SIGINT or SIGTERM sets the stop event, whatever the
\* loop is doing
Signal ==
    /\ pc # "done"
    /\ ~stop_event
    /\ stop_event' = TRUE
    /\ printed' = NoPrint
    /\ UNCHANGED <<probe, config, limits, pc, reconnect_delay, sent, message_count, stats_obj,
                   gauges, final_renders, failure, fails, sleep_dur, ever_listened,
                   channeled>>

----------------------------------------------------------------------------
(* Specifications *)

Next ==
    \/ LoopTop
    \/ ConnectOk
    \/ ConnectRejected
    \/ ConnectError
    \/ SendSubscription
    \/ SendFail
    \/ EnterListening
    \/ RecvMessage
    \/ ConnectionClosed
    \/ ReadError
    \/ AfterTry
    \/ SleepDone
    \/ Signal

Spec == Init /\ [][Next]_vars

\* The steps the event loop always takes: the loop's own statements, the
\* end of a sleep, and the outcome of a pending connect or send.  Nothing
\* forces the upstream to send a message or to close the connection.
Fairness ==
    /\ WF_vars(LoopTop)
    /\ WF_vars(AfterTry)
    /\ WF_vars(SleepDone)
    /\ WF_vars(EnterListening)
    /\ WF_vars(ConnectOk \/ ConnectRejected \/ ConnectError)
    /\ WF_vars(SendSubscription \/ SendFail)

FairSpec == Init /\ [][Next]_vars /\ Fairness

CadenceSpec == InitCadence /\ [][Next]_vars

----------------------------------------------------------------------------
(* The decoders and the helpers of utils.py, each called once on its own *)

\* The Aggregator and the gauges a call can find: fresh, or as an earlier
\* message left them
PreStates ==
    { Decoded(NewStatistics, NewGauges, FALSE),
      handle_swap_trade(Decoded(NewStatistics, NewGauges, FALSE),
          List(<<Trade(Str("sol"), Absent, Str("0xabc123456"), Num(Now - 2))>>),
          FALSE),
      handle_new_pool(Decoded(NewStatistics, NewGauges, FALSE),
          List(<<Pool(Str("bsc"), Absent, Str("Addr123456789"), Num(Now - 3),
                      TokenInfo)>>)) }

\* Further swap records, decoded one to a payload
UnitSwapRecords ==
    SwapRecords \cup
    { \* the chain comes from 'n'
      Trade(Absent, Str("BNB Chain"), Str("0xabc123456"), Num(Now - 60)),
      \* a chain the table does not know
      Trade(Str("tron"), Absent, Str("0xabc123456"), Num(Now - 1)),
      \* 'c' is null: 'n' is not consulted
      Trade(Null, Str("Solana"), Str("0xabc123456"), Num(Now - 1)),
      \* a timestamp that is not a number
      Trade(Str("sol"), Absent, Str("0xabc123456"), Str("1000")),
      \* null chain and stale
      Trade(Null, Absent, Str("0xabc123456"), Num(Now - 121)) }

\* Further pool batch items, decoded one to a payload
UnitPoolRecords ==
    PoolRecords \cup
    { \* wrapped: null pool address, null token-info block, no open time at all
      Pool(Str("sol"), List(<<Entry(Null, Absent, TokenInfo)>>),
           Absent, Num(Now - 1), Absent),
      Pool(Str("sol"), List(<<Entry(Str("Addr123456789"), Absent, Null)>>),
           Absent, Num(Now - 1), Absent),
      Pool(Str("bsc"), List(<<Entry(Str("Addr123456789"), Absent, TokenInfo)>>),
           Absent, Absent, Absent),
      \* wrapped: the batch open time is null, the entry has its own
      Pool(Str("bsc"), List(<<Entry(Str("Addr123456789"), Num(Now - 60), TokenInfo)>>),
           Absent, Null, Absent),
      \* two entries: one with its own open time, one inheriting
      Pool(Str("eth"), List(<<Entry(Str("Addr123456789"), Num(Now - 2), TokenInfo),
                              Entry(Str("Addr987654321"), Absent, TokenInfo)>>),
           Absent, Num(Now - 1), Absent),
      \* two entries: null open time, then one inheriting
      Pool(Str("eth"), List(<<Entry(Str("Addr123456789"), Null, TokenInfo),
                              Entry(Str("Addr987654321"), Absent, TokenInfo)>>),
           Absent, Num(Now - 1), Absent),
      \* bare with an empty nested list, and with a null one
      Pool(Str("sol"), List(<<>>), Str("Addr123456789"), Num(Now - 1), TokenInfo),
      Pool(Str("sol"), Null, Str("Addr123456789"), Num(Now - 1), TokenInfo),
      \* neither a nested list nor a pool address
      Pool(Str("sol"), Absent, Absent, Num(Now - 1), TokenInfo),
      Pool(Str("sol"), Null, Absent, Num(Now - 1), TokenInfo) }

\* Swap payloads: null, or a list of up to MaxUnitBatch records
SwapPayloads ==
    {Null} \cup {List(q) : q \in Batches(UnitSwapRecords, SwapRecords, MaxUnitBatch)}

\* Pool payloads: null, or a list of up to MaxUnitBatch batch items
PoolPayloads ==
    {Null} \cup {List(q) : q \in Batches(UnitPoolRecords, PoolRecords, MaxUnitBatch)}

InitUnit ==
    /\ config \in [chains : {<<"sol">>}, debug : BOOLEAN]
    /\ limits = [messages |-> 0, events |-> 0, batches |-> FALSE]
    /\ pc = "call"
    /\ \E h \in PreStates : stats_obj = h.stats /\ gauges = h.gauges
    /\ probe = NoProbe
    /\ stop_event = FALSE
    /\ reconnect_delay = InitialDelay
    /\ sent = <<>>
    /\ message_count = 0
    /\ printed = NoPrint
    /\ final_renders = 0
    /\ failure = "none"
    /\ fails = 0
    /\ sleep_dur = 0
    /\ ever_listened = FALSE
    /\ channeled = 0

\* What a call leaves in the state: the decoder's outcome, and in probe its
\* input, the state it found and its log
Returned(op, data, h) ==
    /\ stats_obj' = h.stats
    /\ gauges' = h.gauges
    /\ probe' = [op |-> op, data |-> data, debug |-> config.debug,
                 before |-> [stats |-> stats_obj, gauges |-> gauges],
                 raised |-> h.raised, log |-> h.log]
    /\ pc' = "returned"
    /\ UNCHANGED <<config, limits, stop_event, reconnect_delay, sent, message_count,
                   printed, final_renders, failure, fails, sleep_dur,
                   ever_listened, channeled>>

\* handle_swap_trade(data, receive_time, stats_obj, debug)
CallHandleSwapTrade ==
    /\ pc = "call"
    /\ \E data \in SwapPayloads :
          Returned("handle_swap_trade", data,
                   handle_swap_trade(Decoded(stats_obj, gauges, FALSE), data,
                                     config.debug))

\* handle_new_pool(data, receive_time, stats_obj, debug)
CallHandleNewPool ==
    /\ pc = "call"
    /\ \E data \in PoolPayloads :
          Returned("handle_new_pool", data,
                   handle_new_pool(Decoded(stats_obj, gauges, FALSE), data))

\* Values of the timestamp field of a record: 't' of a swap record, 'ot' of a
\* pool entry
Timestamps ==
    { Absent, Null, Num(0), Str("1000"),
      Num(Now + 1), Num(Now), Num(Now - 1), Num(Now - 60),
      Num(Now - 119), Num(Now - 120), Num(Now - 121), Num(1) }

\* Chain codes: the keys of CHAIN_MAP, upper-case variants of the short
\* codes, canonical names and strings the table does not know
ChainCodes ==
    DOMAIN CHAIN_MAP
    \cup {"SOL", "BSC", "ETH", "BASE", "solana", "bnb", "ethereum",
          "Tron", "tron", "unknown", ""}

\* A helper returns: nothing but probe changes
HelperReturned ==
    /\ pc' = "returned"
    /\ UNCHANGED <<config, limits, stop_event, reconnect_delay, sent, message_count,
                   stats_obj, gauges, printed, final_renders, failure, fails,
                   sleep_dur, ever_listened, channeled>>

\* latency_ms = calculate_latency(trade.get('t'))
CallCalculateLatency ==
    /\ pc = "call"
    /\ \E field \in Timestamps :
          probe' = [op |-> "calculate_latency", field |-> field,
                    result |-> calculate_latency(Get1(field), Now)]
    /\ HelperReturned

\* chain = get_chain_name(chain_raw), and the helper applied to its own
\* result
CallGetChainName ==
    /\ pc = "call"
    /\ \E x \in ChainCodes :
          LET once == get_chain_name(Str(x))
          IN probe' = [op |-> "get_chain_name", chain_code |-> x,
                       result |-> once,
                       twice |-> IF once.raised THEN once
                                 ELSE get_chain_name(Str(once.v))]
    /\ HelperReturned

UnitNext ==
    \/ CallHandleSwapTrade
    \/ CallHandleNewPool
    \/ CallCalculateLatency
    \/ CallGetChainName

UnitSpec == InitUnit /\ [][UnitNext]_vars

----------------------------------------------------------------------------
(* One message received while Listening *)

\* A record that carries the fields of a swap record and those of a bare
\* pool, both with a valid timestamp
SwapAndPool ==
    [k |-> "dict", c |-> Str("sol"), n |-> Absent,
     a |-> Str("0xabc123456"), t |-> Num(Now - 1),
     p |-> Absent, pa |-> Str("Addr123456789"), ot |-> Num(Now - 2),
     bti |-> TokenInfo]

\* The messages of the main specification, and every kind of channel value
\* with a payload either decoder would count
ListenMessages ==
    BatchMessages
    \cup {Msg(channel, List(<<SwapAndPool>>)) :
             channel \in {Absent, Null, Str(""), Str("ack"), Str("kline"),
                          Str("new_pair_update"), Str("new_pool_info"),
                          Str("NEW_POOL_INFO"), Num(1)}}

\* Listening on a connection that has delivered 0, 1 or 49 channeled
\* messages, with the Aggregator and the gauges as earlier messages left them
InitListen ==
    /\ config \in [chains : {<<"sol">>}, debug : BOOLEAN]
    /\ limits = [messages |-> SummaryEvery, events |-> 0, batches |-> TRUE]
    /\ pc = "listening"
    /\ \E h \in PreStates : stats_obj = h.stats /\ gauges = h.gauges
    /\ probe = NoProbe
    /\ stop_event = FALSE
    /\ reconnect_delay = InitialDelay
    /\ sent = <<create_subscription(Channels[1], "sol"),
                create_subscription(Channels[2], "sol")>>
    /\ message_count \in {0, 1, SummaryEvery - 1}
    /\ channeled = message_count
    /\ printed = NoPrint
    /\ final_renders = 0
    /\ failure = "none"
    /\ fails = 0
    /\ sleep_dur = 0
    /\ ever_listened = TRUE

\* The next message is received and processed; probe keeps the message, the
\* state it found and the log of the decoder
ListenRecv ==
    /\ pc = "listening"
    /\ probe = NoProbe
    /\ \E msg \in ListenMessages :
          LET r == on_message(msg, message_count + 1, stats_obj, gauges, config.debug)
          IN /\ Deliver(msg, r)
             /\ probe' = [op |-> "message", msg |-> msg,
                          before |-> [stats |-> stats_obj, gauges |-> gauges],
                          log |-> r.log]

ListenNext ==
    \/ ListenRecv

ListenSpec == InitListen /\ [][ListenNext]_vars

----------------------------------------------------------------------------
(* A Statistics object used on its own *)

\* Arguments of Statistics.update
EventTypes == {"swap", "pool"}
ChainNames == {"solana", "bnb"}
Latencies == {0, 250, 120000}

\* A new Statistics object; probe.calls keeps the update calls made on it
InitStats ==
    /\ config = [chains |-> <<"sol">>, debug |-> FALSE]
    /\ limits = [messages |-> 0, events |-> MaxCalls, batches |-> FALSE]
    /\ pc = "stats"
    /\ stats_obj = NewStatistics
    /\ gauges = NewGauges
    /\ probe = [op |-> "update", calls |-> <<>>]
    /\ stop_event = FALSE
    /\ reconnect_delay = InitialDelay
    /\ sent = <<>>
    /\ message_count = 0
    /\ printed = NoPrint
    /\ final_renders = 0
    /\ failure = "none"
    /\ fails = 0
    /\ sleep_dur = 0
    /\ ever_listened = FALSE
    /\ channeled = 0

\* stats_obj.update(event_type, chain, latency_ms)
CallUpdate ==
    /\ pc = "stats"
    /\ Len(probe.calls) < limits.events
    /\ \E event_type \in EventTypes, chain \in ChainNames, latency_ms \in Latencies :
          /\ stats_obj' = Update(stats_obj, event_type, chain, latency_ms)
          /\ probe' = [probe EXCEPT !.calls =
                           Append(@, UpdateCall(event_type, chain, latency_ms))]
    /\ printed' = NoPrint
    /\ UNCHANGED <<config, limits, pc, stop_event, reconnect_delay, sent,
                   message_count, gauges, final_renders, failure, fails, sleep_dur,
                   ever_listened, channeled>>

\* print_summary clearing the counters it has shown
CallPrintSummary_resets ==
    /\ pc = "stats"
    /\ printed' = Rendering("requested", stats_obj)
    /\ stats_obj' = NewStatistics
    /\ UNCHANGED <<probe, config, limits, pc, stop_event, reconnect_delay, sent,
                   message_count, gauges, final_renders, failure, fails,
                   sleep_dur, ever_listened, channeled>>

\* stats_obj.print_summary()
CallPrintSummary ==
    /\ pc = "stats"
    /\ printed' = Rendering("requested", stats_obj)
    /\ UNCHANGED <<probe, config, limits, pc, stop_event, reconnect_delay, sent,
                   message_count, stats_obj, gauges, final_renders, failure, fails,
                   sleep_dur, ever_listened, channeled>>

StatsNext ==
    \/ CallUpdate
    \/ CallPrintSummary

StatsSpec == InitStats /\ [][StatsNext]_vars

----------------------------------------------------------------------------
(* Claims *)

\* The k-th sleep of a run of consecutive failed cycles: 5, 10, 20, 40, 60, 60, ...
ExpectedBackoff(k) == IF k <= 4 THEN 5 * 2^(k - 1) ELSE 60

\* C1: while no cycle has reached Listening since the process started, the
\* k-th backoff sleep lasts 5, 10, 20, 40, 60, 60, 60, ...: double the
\* previous one, capped at 60.
C1_BackoffSequence ==
    (pc = "sleeping" /\ ~ever_listened) => sleep_dur = ExpectedBackoff(fails)

\* The seventh consecutive failure from the start sleeps 60
C1_Witness ==
    pc = "sleeping" /\ ~ever_listened /\ fails = 7 /\ sleep_dur = 60

\* C2: the delay is set back to 5 exactly on entry to Listening (it never
\* decreases in any other step), the first sleep after a cycle that reached
\* Listening is 5, and a failed handshake or a failed send leaves the delay
\* alone, so that the sleep that follows is double the previous one (capped).
C2_ResetOnListening ==
    [][ /\ (pc = "subscribing" /\ pc' = "listening") => reconnect_delay' = 5
        /\ reconnect_delay' < reconnect_delay => pc' = "listening"
        /\ (pc = "after_try" /\ pc' = "sleeping" /\ failure \in ListeningFailures)
              => sleep_dur' = 5
        /\ (pc \in {"connecting", "subscribing"} /\ pc' = "after_try")
              => reconnect_delay' = reconnect_delay
        /\ (pc = "after_try" /\ pc' = "sleeping" /\ failure \in PreListeningFailures
               /\ fails > 0)
              => sleep_dur' = Min2(2 * sleep_dur, 60)
      ]_vars

\* A connection that reached Listening was lost and the sleep that follows
\* lasts 5; the delay for the next one is already doubled when it ends
C2_Witness ==
    /\ pc = "sleeping"
    /\ failure \in ListeningFailures
    /\ ever_listened
    /\ sleep_dur = 5

\* C3: once the stop event is set, whatever the loop is waiting for, the
\* loop eventually renders the final summary and returns.
C3_ShutdownEndsTheLoop ==
    stop_event ~> (pc = "done" /\ final_renders = 1)

\* C4: when the stop event is set during the backoff sleep, the loop goes
\* from the sleep to the loop condition and out, without a connection
\* attempt; it does exit, and the final summary is rendered exactly once.
C4_ShutdownDuringBackoff ==
    /\ [][(stop_event /\ pc \in {"sleeping", "loop_top"})
             => pc' \in {"sleeping", "loop_top", "done"}]_vars
    /\ (stop_event /\ pc = "sleeping") ~> (pc = "done" /\ final_renders = 1)
    /\ [](pc = "done" => final_renders = 1)

\* The stop event was set while the loop sleeps after a failure
C4_Witness ==
    pc = "sleeping" /\ stop_event /\ final_renders = 0 /\ failure # "none"

\* C5: the loop returns only after the stop event is set; after a failure of
\* any kind, with the stop event not set, the next step of the loop is the
\* backoff sleep, of the current delay whatever the kind of failure, and a
\* new connection attempt follows (unless shutdown is signaled meanwhile).
C5_FailuresAreRetried ==
    /\ [][(pc' = "done" /\ pc # "done") => stop_event]_vars
    /\ [][(pc = "after_try" /\ ~stop_event /\ pc' # pc)
             => (/\ failure \in PreListeningFailures \cup ListeningFailures
                 /\ pc' = "sleeping"
                 /\ sleep_dur' = reconnect_delay)]_vars
    /\ \A f \in PreListeningFailures \cup ListeningFailures :
          (pc = "after_try" /\ failure = f /\ ~stop_event)
             ~> (stop_event \/ (pc = "connecting" /\ failure = f))

\* A new attempt is under way after a 403 rejection and its sleep
C5_Witness ==
    pc = "connecting" /\ failure = "rejected_403" /\ fails >= 1 /\ ~stop_event

\* The requests of `sent` for one (chain, channel) pair
RequestsFor(chain, channel) ==
    {i \in 1..Len(sent) : sent[i].channel = channel /\ sent[i].data[1].chain = chain}

\* C6: in Listening, exactly one request has been sent for each (configured
\* chain, channel) pair, 2*N requests for the N configured chains, and no
\* pair was subscribed twice.
C6_OneSubscriptionPerPair ==
    pc = "listening" =>
        /\ Len(sent) = 2 * Len(config.chains)
        /\ \A n \in 1..Len(config.chains) : \A c \in 1..Len(Channels) :
              Cardinality(RequestsFor(config.chains[n], Channels[c])) = 1

\* C7: no record of the inputs (each is an object whose optional fields are
\* missing, null or strings) makes a decoder raise, so no batch is aborted
\* and no connection leaves Listening because of a decoder.
C7_DecodersNeverAbort ==
    failure # "decoder_error"

\* C8: a message that does not parse, or that parses without a channel name,
\* changes neither the Aggregator nor a gauge and leaves the connection in
\* Listening; it never ends the loop of listen_to_gmgn.
C8_UnchanneledIsDiscarded ==
    [][ /\ failure' # "dispatch_error"
        /\ (pc = "listening" /\ message_count' = message_count + 1
               /\ channeled' = channeled)
              => (pc' = "listening" /\ UNCHANGED <<stats_obj, gauges>>)
      ]_vars

\* C9: a step renders the periodic summary exactly when it processes a
\* message that parsed and carried a channel name and that is the 50th,
\* 100th, ... such message of the connection.
C9_EveryFiftiethChanneled ==
    [][ (printed'.kind = "periodic")
           <=> (pc = "listening" /\ channeled' = channeled + 1
                   /\ channeled' % SummaryEvery = 0) ]_vars

\* Values held by the gauges
GaugeValues ==
    {gauges.swap[x] : x \in DOMAIN gauges.swap}
       \cup {gauges.pool[x] : x \in DOMAIN gauges.pool}
       \cup {gauges.all[x] : x \in DOMAIN gauges.all}

\* C10: every latency the gauges hold and every latency the Aggregator was
\* given (its running minimum and maximum bound them all) is in [0, 120000].
C10_LatenciesInRange ==
    /\ \A v \in GaugeValues : 0 <= v /\ v <= 120000
    /\ stats_obj.max_swap_latency <= 120000
    /\ stats_obj.max_pool_latency <= 120000
    /\ stats_obj.min_swap_latency >= 0
    /\ stats_obj.min_pool_latency >= 0
    /\ stats_obj.total_swap_latency <= 120000 * stats_obj.swap_count
    /\ stats_obj.total_pool_latency <= 120000 * stats_obj.pool_count

\* The boundary value 120000 reached a gauge and the Aggregator
C10_Witness ==
    /\ stats_obj.max_swap_latency = 120000
    /\ stats_obj.max_pool_latency = 120000
    /\ 120000 \in GaugeValues

----------------------------------------------------------------------------
(* Claims about the decoders called on their own (UnitSpec) *)

IsDecoderCall == probe.op \in {"handle_swap_trade", "handle_new_pool"}

\* Positions of the log where calculate_latency returned None
Skips ==
    {i \in 1..Len(probe.log) :
        probe.log[i].op = "latency" /\ probe.log[i].v = Null}

\* Number of log entries of one kind
Count(log, op) == Cardinality({i \in 1..Len(log) : log[i].op = op})

RECURSIVE Replay(_, _)
\* The Aggregator and the gauges after the writes and updates of a log
Replay(h, log) ==
    IF log = <<>> THEN h
    ELSE LET e == Head(log)
         IN Replay(IF e.op = "gauge"
                   THEN [h EXCEPT !.gauges = ApplyWrites(@, <<e>>)]
                   ELSE IF e.op = "update"
                   THEN [h EXCEPT !.stats = Update(@, e.type, e.chain, e.v)]
                   ELSE h,
                   Tail(log))

\* Pool entries the decoder iterates over for one batch item
EntriesOf(ev) ==
    IF ev.p.k = "list" /\ ev.p.v # <<>> THEN Len(ev.p.v)
    ELSE IF ev.pa.k # "absent" THEN 1 ELSE 0

\* Every record of the payload was begun
AllBegun ==
    LET log == probe.log
        n == Len(probe.data.v)
    IN IF probe.op = "handle_swap_trade"
       THEN Count(log, "record") = n
       ELSE /\ Count(log, "event") = n
            /\ LET last == CHOOSE i \in 1..Len(log) :
                               /\ log[i].op = "event"
                               /\ \A j \in (i + 1)..Len(log) : log[j].op # "event"
               IN Count(SubSeq(log, last, Len(log)), "record")
                      = EntriesOf(probe.data.v[n])

\* C11: a record for which calculate_latency returned None gets no gauge
\* write and no Aggregator update: what follows it in the log is the next
\* record, or the normal end of the payload with every record begun; and
\* the Aggregator and the gauges are what the writes and updates of the
\* other records make of the state the call found.
C11_InvalidLatencySkipsOnlyItsRecord ==
    IsDecoderCall =>
        /\ \A i \in Skips :
              /\ i > 1 /\ probe.log[i - 1].op = "record"
              /\ i < Len(probe.log) => probe.log[i + 1].op \in {"record", "event"}
              /\ i = Len(probe.log) => ~probe.raised /\ AllBegun
        /\ [stats |-> stats_obj, gauges |-> gauges]
               = Replay(probe.before, probe.log)

\* A skipped record between two records that were counted
C11_Witness ==
    /\ IsDecoderCall
    /\ \E i \in Skips :
          /\ \E j \in 1..(i - 1) : probe.log[j].op = "update"
          /\ \E j \in (i + 1)..Len(probe.log) : probe.log[j].op = "update"

\* C12: calculate_latency returns None for an absent, null or zero
\* timestamp; for any other number it returns (now - timestamp) * 1000 when
\* that lies in [0, 120000], both ends included, and None otherwise.
C12_CalculateLatency ==
    probe.op = "calculate_latency" =>
        LET t == probe.field
        IN /\ t \in {Absent, Null, Num(0)} => probe.result = Null
           /\ (t.k = "num" /\ t.v # 0) =>
                 LET ms == (Now - t.v) * 1000
                 IN IF 0 <= ms /\ ms <= 120000
                    THEN probe.result = Num(ms)
                    ELSE probe.result = Null

\* A latency equal to the limit is returned
C12_Witness ==
    /\ probe.op = "calculate_latency"
    /\ probe.field = Num(Now - 120)
    /\ probe.result = Num(120000)

\* Position of the next record or batch item begun after position i
NextMark(log, i) ==
    LET later == {j \in (i + 1)..Len(log) : log[j].op \in {"record", "event"}}
    IN IF later = {} THEN Len(log) + 1
       ELSE CHOOSE j \in later : \A m \in later : j <= m

\* What the decoder did for the record begun at position i
SegmentAt(log, i) == SubSeq(log, i + 1, NextMark(log, i) - 1)

\* Positions where a record was begun for which a latency was obtained
ValidRecords ==
    {i \in 1..Len(probe.log) :
        /\ probe.log[i].op = "record"
        /\ SegmentAt(probe.log, i) # <<>>
        /\ SegmentAt(probe.log, i)[1].op = "latency"
        /\ SegmentAt(probe.log, i)[1].v # Null}

\* The canonical names the specification gives for the chain codes
CanonicalName(code) ==
    CASE code = "sol" -> "solana"
      [] code = "bsc" -> "bnb"
      [] code = "base" -> "base"
      [] code = "eth" -> "ethereum"
      [] code = "Solana" -> "solana"
      [] code = "BNB Chain" -> "bnb"
      [] code = "Base" -> "base"
      [] code = "Ethereum" -> "ethereum"
      [] OTHER -> code

\* The chain code of a record: 'c', else 'n', else "unknown"
RawChain(rec) ==
    IF rec.c.k # "absent" THEN rec.c.v
    ELSE IF rec.n.k # "absent" THEN rec.n.v ELSE "unknown"

\* The bucket of a chain before the call
BucketBefore(c) ==
    IF c \in DOMAIN probe.before.stats.by_chain
    THEN probe.before.stats.by_chain[c] ELSE NewBucket

\* The swap record begun at position i of the log
TradeAt(i) == probe.data.v[Count(SubSeq(probe.log, 1, i), "record")]

\* C13: for each swap record with a valid latency handle_swap_trade makes,
\* in this order and nothing else, one write of that latency to the swap
\* gauge and one to the combined gauge, under the canonical chain name, and
\* one Aggregator update of type swap for that chain; each chain's swap count
\* grows by the number of its valid records, and the pool gauge and the pool
\* counters keep their values.
C13_ValidSwapIsWrittenOnce ==
    probe.op = "handle_swap_trade" =>
        /\ \A i \in ValidRecords :
              LET chain == CanonicalName(RawChain(TradeAt(i)))
                  ms == (Now - TradeAt(i).t.v) * 1000
              IN SegmentAt(probe.log, i)
                    = << LatencyComputed(Num(ms)),
                         GaugeWrite("swap", chain, ms),
                         GaugeWrite("all", <<"gmgn", chain>>, ms),
                         UpdateCall("swap", chain, ms) >>
        /\ [stats |-> stats_obj, gauges |-> gauges]
               = Replay(probe.before, probe.log)
        /\ stats_obj.swap_count
               = probe.before.stats.swap_count + Cardinality(ValidRecords)
        /\ \A c \in DOMAIN stats_obj.by_chain :
              /\ stats_obj.by_chain[c].swap_count
                    = BucketBefore(c).swap_count
                      + Cardinality({i \in ValidRecords :
                                       CanonicalName(RawChain(TradeAt(i))) = c})
              /\ stats_obj.by_chain[c].pool_count = BucketBefore(c).pool_count
        /\ gauges.pool = probe.before.gauges.pool
        /\ stats_obj.pool_count = probe.before.stats.pool_count
        /\ stats_obj.total_pool_latency = probe.before.stats.total_pool_latency
        /\ stats_obj.min_pool_latency = probe.before.stats.min_pool_latency
        /\ stats_obj.max_pool_latency = probe.before.stats.max_pool_latency

\* A "bsc" record with a valid latency was written under "bnb", after pool
\* events had been counted
C13_Witness ==
    /\ probe.op = "handle_swap_trade"
    /\ probe.before.stats.pool_count > 0
    /\ \E i \in ValidRecords :
          /\ RawChain(TradeAt(i)) = "bsc"
          /\ UpdateCall("swap", "bnb", 120000) \in
                 {SegmentAt(probe.log, i)[j] : j \in 1..Len(SegmentAt(probe.log, i))}
    /\ stats_obj.by_chain["bnb"].swap_count >= 1

\* The batch item being decoded at position i of the log
EventAt(i) == probe.data.v[Count(SubSeq(probe.log, 1, i), "event")]

\* C14: for each pool entry with a valid latency handle_new_pool makes, in
\* this order and nothing else, one write of that latency to the
\* pool-discovery gauge and one to the combined gauge, both labelled
\* ("gmgn", canonical chain), and one Aggregator update of type pool for that
\* chain; each chain's pool count grows by the number of its valid entries,
\* and the swap gauge and the swap counters keep their values.
C14_ValidPoolIsWrittenOnce ==
    probe.op = "handle_new_pool" =>
        /\ \A i \in ValidRecords :
              LET chain == CanonicalName(RawChain(EventAt(i)))
                  ms == SegmentAt(probe.log, i)[1].v.v
              IN SegmentAt(probe.log, i)
                    = << LatencyComputed(Num(ms)),
                         GaugeWrite("pool", <<"gmgn", chain>>, ms),
                         GaugeWrite("all", <<"gmgn", chain>>, ms),
                         UpdateCall("pool", chain, ms) >>
        /\ [stats |-> stats_obj, gauges |-> gauges]
               = Replay(probe.before, probe.log)
        /\ stats_obj.pool_count
               = probe.before.stats.pool_count + Cardinality(ValidRecords)
        /\ \A c \in DOMAIN stats_obj.by_chain :
              /\ stats_obj.by_chain[c].pool_count
                    = BucketBefore(c).pool_count
                      + Cardinality({i \in ValidRecords :
                                       CanonicalName(RawChain(EventAt(i))) = c})
              /\ stats_obj.by_chain[c].swap_count = BucketBefore(c).swap_count
        /\ gauges.swap = probe.before.gauges.swap
        /\ stats_obj.swap_count = probe.before.stats.swap_count
        /\ stats_obj.total_swap_latency = probe.before.stats.total_swap_latency
        /\ stats_obj.min_swap_latency = probe.before.stats.min_swap_latency
        /\ stats_obj.max_swap_latency = probe.before.stats.max_swap_latency

\* A "sol" pool with a valid latency was written under ("gmgn", "solana"),
\* after swaps had been counted
C14_Witness ==
    /\ probe.op = "handle_new_pool"
    /\ probe.before.stats.swap_count > 0
    /\ \E i \in ValidRecords :
          /\ RawChain(EventAt(i)) = "sol"
          /\ SegmentAt(probe.log, i)[2] = GaugeWrite("pool", <<"gmgn", "solana">>, 1000)
    /\ stats_obj.by_chain["solana"].pool_count >= 1

\* A batch item that wraps exactly one entry carrying a pool address
IsWrappedOne(ev) ==
    /\ ev.k = "dict"
    /\ ev.p.k = "list"
    /\ Len(ev.p.v) = 1
    /\ ev.p.v[1].k = "dict"
    /\ ev.p.v[1].pa.k # "absent"

\* The same pool given bare: the entry's fields and the batch item's fields
\* in one object without a nested list, the entry's own fields first
BareForm(ev) ==
    IF ~IsWrappedOne(ev) THEN ev
    ELSE LET e == ev.p.v[1]
         IN [k |-> "dict", c |-> ev.c, n |-> ev.n, p |-> Absent, pa |-> e.pa,
             ot |-> IF e.ot.k # "absent" THEN e.ot ELSE ev.ot,
             bti |-> e.bti]

\* C15: handle_new_pool called on the payload with every wrapped pool
\* replaced by its bare form ends with the same Aggregator, the same
\* gauges, the same latency decisions, writes and updates in the same
\* order, and the same exception or lack of one.
C15_WrappedAndBareAgree ==
    (probe.op = "handle_new_pool" /\ probe.data.k = "list") =>
        LET bare == List([i \in 1..Len(probe.data.v) |-> BareForm(probe.data.v[i])])
            other == handle_new_pool(
                         Decoded(probe.before.stats, probe.before.gauges, FALSE),
                         bare)
        IN /\ other.stats = stats_obj
           /\ other.gauges = gauges
           /\ other.raised = probe.raised
           /\ other.log = probe.log

\* A wrapped pool was counted
C15_Witness ==
    /\ probe.op = "handle_new_pool"
    /\ probe.data.k = "list"
    /\ \E i \in ValidRecords : IsWrappedOne(EventAt(i))
    /\ stats_obj.pool_count > probe.before.stats.pool_count

\* The pool entry begun at position i of the log: the j-th of the nested
\* list, or the batch item itself when it is bare
EntryAt(i) ==
    LET ev == EventAt(i)
        start == CHOOSE m \in 1..i :
                    /\ probe.log[m].op = "event"
                    /\ \A x \in (m + 1)..i : probe.log[x].op # "event"
        j == Count(SubSeq(probe.log, start, i), "record")
    IN IF ev.p.k = "list" /\ ev.p.v # <<>> THEN ev.p.v[j] ELSE ev

\* The latency of an origin timestamp as the specification defines it
LatencyOf(t) ==
    IF t.k = "num" /\ t.v # 0 /\ Now - t.v >= 0 /\ (Now - t.v) * 1000 <= 120000
    THEN Num((Now - t.v) * 1000)
    ELSE Null

\* C16: the latency handle_new_pool computes for a pool entry is that of the
\* batch item's open time when the entry's own open time is absent or null,
\* and that of the entry's own open time otherwise.
C16_OpenTimeInheritance ==
    probe.op = "handle_new_pool" =>
        \A i \in 1..Len(probe.log) :
            (probe.log[i].op = "record" /\ SegmentAt(probe.log, i) # <<>>) =>
                LET own == EntryAt(i).ot
                    batch == EventAt(i).ot
                    computed == SegmentAt(probe.log, i)[1].v
                IN IF own \in {Absent, Null}
                   THEN computed = LatencyOf(batch)
                   ELSE computed = LatencyOf(own)

----------------------------------------------------------------------------
(* Claims about the run (Spec), continued *)

\* C19: no step of the run, be it a message, a connection loss, a backoff
\* or a reconnect, lowers swap_count, pool_count, a latency sum or a
\* per-chain counter, or removes a chain bucket.
C19_AggregatorOnlyGrows ==
    [][ /\ stats_obj'.swap_count >= stats_obj.swap_count
        /\ stats_obj'.pool_count >= stats_obj.pool_count
        /\ stats_obj'.total_swap_latency >= stats_obj.total_swap_latency
        /\ stats_obj'.total_pool_latency >= stats_obj.total_pool_latency
        /\ DOMAIN stats_obj.by_chain \subseteq DOMAIN stats_obj'.by_chain
        /\ \A c \in DOMAIN stats_obj.by_chain :
              /\ stats_obj'.by_chain[c].swap_count >= stats_obj.by_chain[c].swap_count
              /\ stats_obj'.by_chain[c].pool_count >= stats_obj.by_chain[c].pool_count
              /\ stats_obj'.by_chain[c].total_latency
                    >= stats_obj.by_chain[c].total_latency
      ]_vars

\* A later connection counted a record on top of what an earlier connection
\* had counted
C19_Witness ==
    /\ pc = "listening"
    /\ message_count = 1
    /\ failure = "none"
    /\ stats_obj.swap_count = 1
    /\ stats_obj.pool_count = 1
    /\ DOMAIN stats_obj.by_chain = {"solana", "bnb"}

----------------------------------------------------------------------------
(* Claims about get_chain_name called on its own (UnitSpec) *)

\* C20: for every string, get_chain_name returns without raising, applying
\* it to its own result gives that result again, and a string that is not a
\* key of CHAIN_MAP comes back lower-cased.
C20_ChainNameTotalIdempotent ==
    probe.op = "get_chain_name" =>
        /\ ~probe.result.raised
        /\ probe.twice = probe.result
        /\ probe.chain_code \notin DOMAIN CHAIN_MAP
              => probe.result.v = Lower(probe.chain_code)

----------------------------------------------------------------------------
(* Claims about a Statistics object used on its own (StatsSpec) *)

\* The update calls of one type among the calls made
CallsOf(event_type) ==
    SelectSeq(probe.calls, LAMBDA e : e.type = event_type)

RECURSIVE SumOf(_)
\* Sum of the latencies of a sequence of calls
SumOf(calls) == IF calls = <<>> THEN 0 ELSE Head(calls).v + SumOf(Tail(calls))

\* C17: after update calls of both types in any order, swap_count is the
\* number N of swap calls and total_swap_latency the sum of their latencies,
\* so a summary shows N and the mean sum/N; pool_count and
\* total_pool_latency are those of the pool calls alone.
C17_TotalsPerType ==
    probe.op = "update" =>
        /\ stats_obj.swap_count = Len(CallsOf("swap"))
        /\ stats_obj.total_swap_latency = SumOf(CallsOf("swap"))
        /\ stats_obj.pool_count = Len(CallsOf("pool"))
        /\ stats_obj.total_pool_latency = SumOf(CallsOf("pool"))
        /\ (printed.kind = "requested" /\ CallsOf("swap") # <<>>) =>
              /\ printed.view.swap[1] = Len(CallsOf("swap"))
              /\ printed.view.swap[2]
                    = SumOf(CallsOf("swap")) \div Len(CallsOf("swap"))

\* Two swaps with a pool update between them, and the summary shown
C17_Witness ==
    /\ probe.op = "update"
    /\ Len(probe.calls) = 3
    /\ probe.calls[1].type = "swap" /\ probe.calls[1].v = 250
    /\ probe.calls[2].type = "pool" /\ probe.calls[2].v = 120000
    /\ probe.calls[3].type = "swap" /\ probe.calls[3].v = 0
    /\ printed.kind = "requested"
    /\ printed.view.swap = <<2, 125, 0, 250>>

RECURSIVE BucketSum(_, _, _)
\* Sum of one field over the buckets of the chains in S
BucketSum(by_chain, S, field) ==
    IF S = {} THEN 0
    ELSE LET c == CHOOSE x \in S : TRUE
         IN by_chain[c][field] + BucketSum(by_chain, S \ {c}, field)

\* C18: the buckets' swap counts add up to swap_count, their pool counts to
\* pool_count, and their latency sums to total_swap_latency +
\* total_pool_latency.
C18_BucketsAddUp ==
    probe.op = "update" =>
        LET b == stats_obj.by_chain
        IN /\ BucketSum(b, DOMAIN b, "swap_count") = stats_obj.swap_count
           /\ BucketSum(b, DOMAIN b, "pool_count") = stats_obj.pool_count
           /\ BucketSum(b, DOMAIN b, "total_latency")
                 = stats_obj.total_swap_latency + stats_obj.total_pool_latency

\* Two buckets, one of them updated twice, with both types of update
C18_Witness ==
    /\ probe.op = "update"
    /\ DOMAIN stats_obj.by_chain = {"solana", "bnb"}
    /\ stats_obj.by_chain["solana"].swap_count = 1
    /\ stats_obj.by_chain["solana"].pool_count = 1
    /\ stats_obj.by_chain["bnb"].swap_count = 1
    /\ stats_obj.total_swap_latency + stats_obj.total_pool_latency > 0

\* C21: a print_summary call shows the object as it is and leaves every
\* field of it unchanged, with no event recorded as with any; whatever the
\* number of print_summary calls made in between, the object is what the
\* update calls alone make of a new one, and a section is shown exactly when
\* its count is positive, with a finite minimum.
C21_PrintSummaryReadsOnly ==
    [][ /\ printed'.kind = "requested" =>
              /\ stats_obj' = stats_obj
              /\ probe' = probe
              /\ printed'.view = print_summary(stats_obj)
              /\ (printed'.view.swap = <<>>) <=> (stats_obj.swap_count = 0)
              /\ (printed'.view.pool = <<>>) <=> (stats_obj.pool_count = 0)
              /\ printed'.view.swap # <<>> => printed'.view.swap[3] < Inf
              /\ printed'.view.pool # <<>> => printed'.view.pool[3] < Inf
        /\ probe'.op = "update" =>
              stats_obj' = Replay([stats |-> NewStatistics, gauges |-> NewGauges],
                                  probe'.calls).stats
      ]_vars

\* The summary was requested with no event recorded
C21_Witness ==
    /\ pc = "stats"
    /\ printed.kind = "requested"
    /\ probe.calls = <<>>
    /\ stats_obj = NewStatistics
    /\ printed.view.swap = <<>>
    /\ printed.view.pool = <<>>

----------------------------------------------------------------------------
(* Claims about one message received while Listening (ListenSpec) *)

\* The channel name of the message received
ChannelOf(msg) == Get1(msg.channel)

\* Types of the Aggregator updates in the log
UpdateTypes ==
    {probe.log[i].type : i \in {j \in 1..Len(probe.log) : probe.log[j].op = "update"}}

\* C22: a message with channel "ack", or with a channel name that is
\* neither new_pair_update nor new_pool_info, changes neither the Aggregator
\* nor a gauge and leaves the connection in Listening; records reach the
\* swap decoder only from new_pair_update and the pool decoder only from
\* new_pool_info.
C22_OtherChannelsAreIgnored ==
    (probe.op = "message" /\ probe.msg.k = "dict") =>
        /\ (~Falsy(ChannelOf(probe.msg))
               /\ ChannelOf(probe.msg) \notin {Str("new_pair_update"),
                                                Str("new_pool_info")})
              => /\ stats_obj = probe.before.stats
                 /\ gauges = probe.before.gauges
                 /\ probe.log = <<>>
                 /\ pc = "listening"
                 /\ failure = "none"
                 /\ sent # <<>>
        /\ "swap" \in UpdateTypes => ChannelOf(probe.msg) = Str("new_pair_update")
        /\ "pool" \in UpdateTypes => ChannelOf(probe.msg) = Str("new_pool_info")
        /\ Count(probe.log, "event") > 0 => ChannelOf(probe.msg) = Str("new_pool_info")

\* A message of another channel carrying a record both decoders would count
\* was received as the 50th of its connection
C22_Witness ==
    /\ probe.op = "message"
    /\ probe.msg = Msg(Str("kline"), List(<<SwapAndPool>>))
    /\ message_count = SummaryEvery
    /\ printed.kind = "periodic"
    /\ stats_obj.swap_count + stats_obj.pool_count > 0

----------------------------------------------------------------------------
(* Claims about the two latency filters (UnitSpec) *)

\* C23: in a decoder run every record that gets an Aggregator update gets
\* its two gauge writes and every record that gets gauge writes gets its
\* update; and for a timestamp that is a number other than 0, the sink's
\* entry points write exactly when calculate_latency returns a latency.
C23_AggregatorAndSinkAgree ==
    /\ IsDecoderCall =>
          \A i \in 1..Len(probe.log) :
              probe.log[i].op = "record" =>
                  LET seg == SegmentAt(probe.log, i)
                  IN /\ Count(seg, "update") \in {0, 1}
                     /\ Count(seg, "gauge") = 2 * Count(seg, "update")
    /\ (probe.op = "calculate_latency" /\ probe.field.k = "num"
           /\ probe.field.v # 0) =>
          LET ms == (Now - probe.field.v) * 1000
          IN /\ (probe.result # Null)
                   <=> (record_latency_writes("gmgn", "solana", ms) # <<>>)
             /\ (probe.result # Null)
                   <=> (record_pool_discovery_latency_writes("gmgn", "solana", ms)
                           # <<>>)

\* A record at the upper limit of the filters was counted and written
C23_Witness ==
    /\ probe.op = "handle_swap_trade"
    /\ UpdateCall("swap", "bnb", 120000) \in
           {probe.log[i] : i \in 1..Len(probe.log)}
    /\ GaugeWrite("swap", "bnb", 120000) \in
           {probe.log[i] : i \in 1..Len(probe.log)}
    /\ gauges.swap["bnb"] = 120000
    /\ stats_obj.by_chain["bnb"].swap_count = 1

----------------------------------------------------------------------------
(* Claims about the run (Spec), continued *)

\* C24: in every reachable state of the run the backoff delay is 5, 10, 20,
\* 40 or 60.
C24_DelayValues ==
    reconnect_delay \in {5, 10, 20, 40, 60}

\* The delay was doubled at the cap and is still 60, with shutdown requested
C24_Witness ==
    /\ pc = "loop_top"
    /\ fails = 6
    /\ sleep_dur = 60
    /\ reconnect_delay = 60
    /\ stop_event

----------------------------------------------------------------------------
(* Claims about long connections (CadenceSpec) *)

\* C25: the message counter is 0 whenever Listening is entered, it only
\* counts the messages received since, and the periodic summary is shown
\* only by a message that brings this counter to a multiple of 50; what the
\* summary shows is the Aggregator of the whole run, as that message leaves
\* it.
C25_CounterIsPerConnection ==
    [][ /\ (pc # "listening" /\ pc' = "listening") => message_count' = 0
        /\ (pc = "listening" /\ pc' = "listening") =>
              message_count' \in {message_count, message_count + 1}
        /\ printed'.kind = "periodic" =>
              /\ pc = "listening"
              /\ message_count' = message_count + 1
              /\ message_count' % SummaryEvery = 0
              /\ printed'.view = print_summary(stats_obj')
      ]_vars

\* A connection entered after an earlier one had counted a record: the
\* counter is back at 0 and the totals are kept
C25_Witness ==
    /\ pc = "listening"
    /\ message_count = 0
    /\ channeled = 0
    /\ stats_obj.swap_count + stats_obj.pool_count = 1
    /\ print_summary(stats_obj).per_chain # <<>>

====
